---- MODULE Spec2Model ----
(***************************************************************************)
(* Model of package sh (src/sh.go): an Environment wraps a Shell, builds   *)
(* an exec.Cmd from a script and a heterogeneous argument list, runs it    *)
(* and resets its scratch argument buffer.                                 *)
(*                                                                         *)
(* Go strings that the code concatenates (environment keys, values and     *)
(* entries) are sequences of one-character strings, so that "k=v" is       *)
(* really built and can be parsed back; strings that are only passed       *)
(* through (script, argv items, directory, names) are TLA+ strings.        *)
(***************************************************************************)
EXTENDS Integers, Sequences, FiniteSets, TLC

VARIABLES
    envs,                \* the Environment objects, by identity
    defaultEnvironment,  \* the package variable: the identity of the default
    last,                \* the most recent finished call: inputs and results
    installed,           \* history: the argument of the latest SetDefaultEnvironment
    gor,                 \* SpecConc: each goroutine's place in its call
    overlapped           \* SpecConc history: Environments two calls have shared

vars == <<envs, defaultEnvironment, last, installed, gor, overlapped>>

(***************************************************************************)
(* Bounds                                                                  *)
(***************************************************************************)
\* longest argument list passed to Run / Output in SpecArgs
MaxArgs == 3
\* calls the goroutines of SpecConc make in all
MaxCallsConc == 3

(***************************************************************************)
(* Values                                                                  *)
(***************************************************************************)
Nil == "nil"

\* the Shell implementations: bash and sh of the package, and one
\* caller-supplied implementation of the interface that has a suffix
Bash == [Name |-> "bash", Prefix |-> <<"-c">>, Suffix |-> <<>>]

Sh == [Name |-> "sh", Prefix |-> <<"-c">>, Suffix |-> <<>>]

CustomShell == [Name |-> "fish", Prefix |-> <<"-N", "-c">>, Suffix |-> <<";">>]

Shells == {Bash, Sh, CustomShell}

\* the error of command construction
ErrInvalidArgs == "invalid number of arguments"

\* the error of exec.Cmd.Output when Stdout is already set
ErrStdoutSet == "exec: Stdout already set"

\* os.Environ(): the inherited environment
OsEnviron == << <<"H", "=", "r">>, <<"X", "=", "o">> >>

Digit(d) == <<"0", "1", "2", "3", "4", "5", "6", "7", "8", "9">>[d + 1]

RECURSIVE Itoa(_)
\* decimal text of an integer, as %v prints it
Itoa(n) ==
    IF n < 0 THEN <<"-">> \o Itoa(-n)
    ELSE IF n < 10 THEN <<Digit(n)>>
    ELSE Itoa(n \div 10) \o <<Digit(n % 10)>>

\* Arg.String
ArgString(kv) == kv.Key \o <<"=">> \o kv.Value

\* fmt.Sprintf("%v", x): a string as it is, an integer in decimal, an Arg
\* through its String method
Sprintf(x) ==
    CASE x.kind = "string" -> x.s
      [] x.kind = "int" -> Itoa(x.n)
      [] x.kind = "Arg" -> ArgString(x)

IsArg(x) == x.kind = "Arg"

MkArg(k, v) == [kind |-> "Arg", Key |-> k, Value |-> v]

MkStr(s) == [kind |-> "string", s |-> s]

MkInt(n) == [kind |-> "int", n |-> n]

(***************************************************************************)
(* Environment                                                             *)
(***************************************************************************)
EnvIds == {"e0", "e1", "e2"}

NoEnv == [shell |-> Nil]

\* the zero Environment around a shell (NewEnvironment before the options)
ZeroEnvironment(shell) ==
    [shell |-> shell, stdout |-> Nil, stderr |-> Nil, env |-> <<>>,
     workingDir |-> "", argBuffer |-> <<>>]

WithStdout(w) == [opt |-> "stdout", val |-> w]

WithStderr(w) == [opt |-> "stderr", val |-> w]

WithEnv(m) == [opt |-> "env", val |-> m]

WithWorkingDir(dir) == [opt |-> "workingDir", val |-> dir]

\* an option applied to an Environment
ApplyOption(e, o) ==
    CASE o.opt = "stdout" -> [e EXCEPT !.stdout = o.val]
      [] o.opt = "stderr" -> [e EXCEPT !.stderr = o.val]
      [] o.opt = "env" -> [e EXCEPT !.env = o.val]
      [] o.opt = "workingDir" -> [e EXCEPT !.workingDir = o.val]

RECURSIVE ApplyOptions(_, _)
ApplyOptions(e, opts) ==
    IF opts = <<>> THEN e
    ELSE ApplyOptions(ApplyOption(e, Head(opts)), Tail(opts))

NewEnv(shell, opts) == ApplyOptions(ZeroEnvironment(shell), opts)

\* mutant of Cleanup: the buffer is not truncated
Cleanup_Keep(e) == e

\* cleanup: e.argBuffer = e.argBuffer[:0]
Cleanup(e) == [e EXCEPT !.argBuffer = <<>>]

\* mutant of AppendTo: the items go in front
AppendTo_Prepend(buf, items) == items \o buf

\* append(buf, items...)
AppendTo(buf, items) == buf \o items

\* the three appends that open command
AppendArgs(e, script) ==
    LET b1 == AppendTo(e.argBuffer, e.shell.Prefix)
        b2 == AppendTo(b1, <<script>>)
        suf == e.shell.Suffix
        b3 == IF Len(suf) > 0 THEN AppendTo(b2, suf) ELSE b2
    IN  [e EXCEPT !.argBuffer = b3]

\* the entries of the extra environment, in the order the map iteration
\* happens to take (order: a sequence of the map's keys)
ExtraEnvEntries(m, order) ==
    IF Len(order) > 0 THEN [i \in 1..Len(order) |-> order[i] \o <<"=">> \o m[order[i]]]
    ELSE <<>>

RECURSIVE ArgLoop_LenParity(_, _, _)
\* mutant of ArgLoop: a list of odd length is refused before the loop
ArgLoop_LenParity(args, i, ev) ==
    IF i = 0 /\ Len(args) % 2 = 1 THEN [err |-> ErrInvalidArgs, envs |-> ev]
    ELSE IF ~(i < Len(args)) THEN [err |-> Nil, envs |-> ev]
    ELSE IF IsArg(args[i + 1])
         THEN ArgLoop_LenParity(args, i + 1, Append(ev, ArgString(args[i + 1])))
    ELSE IF i = Len(args) - 1 THEN [err |-> ErrInvalidArgs, envs |-> ev]
    ELSE ArgLoop_LenParity(args, i + 2,
                           Append(ev, Sprintf(args[i + 1]) \o <<"=">> \o Sprintf(args[i + 2])))

RECURSIVE ArgLoop_NoArgCase(_, _, _)
\* mutant of ArgLoop: no case for Arg, every item is a key or a value
ArgLoop_NoArgCase(args, i, ev) ==
    IF ~(i < Len(args)) THEN [err |-> Nil, envs |-> ev]
    ELSE IF i = Len(args) - 1 THEN [err |-> ErrInvalidArgs, envs |-> ev]
    ELSE ArgLoop_NoArgCase(args, i + 2,
                           Append(ev, Sprintf(args[i + 1]) \o <<"=">> \o Sprintf(args[i + 2])))

RECURSIVE ArgLoop_Swapped(_, _, _)
\* mutant of ArgLoop: key and value change places
ArgLoop_Swapped(args, i, ev) ==
    IF ~(i < Len(args)) THEN [err |-> Nil, envs |-> ev]
    ELSE IF IsArg(args[i + 1])
         THEN ArgLoop_Swapped(args, i + 1, Append(ev, ArgString(args[i + 1])))
    ELSE IF i = Len(args) - 1 THEN [err |-> ErrInvalidArgs, envs |-> ev]
    ELSE ArgLoop_Swapped(args, i + 2,
                         Append(ev, Sprintf(args[i + 2]) \o <<"=">> \o Sprintf(args[i + 1])))

RECURSIVE ArgLoop(_, _, _)
\* the loop over args, i counting from 0 as in the code
ArgLoop(args, i, ev) ==
    IF ~(i < Len(args)) THEN [err |-> Nil, envs |-> ev]
    ELSE IF IsArg(args[i + 1]) THEN ArgLoop(args, i + 1, Append(ev, ArgString(args[i + 1])))
    ELSE IF i = Len(args) - 1 THEN [err |-> ErrInvalidArgs, envs |-> ev]
    ELSE ArgLoop(args, i + 2, Append(ev, Sprintf(args[i + 1]) \o <<"=">> \o Sprintf(args[i + 2])))

\* mutant of CmdDir: the test of workingDir is inverted
CmdDir_Inverted(e) == IF e.workingDir = "" THEN e.workingDir ELSE ""

\* cmd.Dir as command sets it
CmdDir(e) == IF e.workingDir # "" THEN e.workingDir ELSE ""

\* mutant of BaseEnv: the extra environment comes before the inherited one
BaseEnv_ExtraFirst(e, order) ==
    IF Cardinality(DOMAIN e.env) > 0 THEN ExtraEnvEntries(e.env, order) \o OsEnviron
    ELSE OsEnviron

\* the environment vector before the args are added
BaseEnv(e, order) ==
    IF Cardinality(DOMAIN e.env) > 0 THEN OsEnviron \o ExtraEnvEntries(e.env, order)
    ELSE OsEnviron

NoCmd == [Path |-> Nil]

\* command from exec.CommandContext on: the exec.Cmd, or the error of the loop
BuildCmd(e, args, order) ==
    LET loop == ArgLoop(args, 0, BaseEnv(e, order))
        cmd == [Path |-> e.shell.Name, Args |-> e.argBuffer,
                Stdout |-> e.stdout, Stderr |-> e.stderr,
                Dir |-> CmdDir(e), Env |-> loop.envs]
    IN  [cmd |-> IF loop.err = Nil THEN cmd ELSE NoCmd, err |-> loop.err]

\* command: the Environment after the appends, the exec.Cmd and the error
Command(e, script, args, order) ==
    LET e1 == AppendArgs(e, script)
        b == BuildCmd(e1, args, order)
    IN  [e |-> e1, cmd |-> b.cmd, err |-> b.err]

(***************************************************************************)
(* The process-execution collaborator (os/exec)                            *)
(***************************************************************************)
\* how the child ends: status zero, another status, killed by a signal (also
\* what a cancelled context does to it), or never started
Exits == {"exit0", "exit1", "signal", "spawn"}

\* the error exec.Cmd.Run reports for an end of the child
ExitErr(exit) == IF exit = "exit0" THEN Nil ELSE exit

\* what the child writes to its standard output
ChildStdout(cmd) == <<"out", cmd.Args>>

\* the nil byte slice
NilBytes == <<>>

\* a call that returns err without a child
NotStarted(err) ==
    [started |-> FALSE, exit |-> Nil, err |-> err, out |-> NilBytes, stdoutTo |-> Nil]

\* exec.Cmd.Run: the child's stdout goes to cmd.Stdout, or is discarded
CmdRun(cmd, exit) ==
    [started |-> TRUE, exit |-> exit, err |-> ExitErr(exit), out |-> NilBytes,
     stdoutTo |-> IF cmd.Stdout = Nil THEN "devnull" ELSE cmd.Stdout]

\* exec.Cmd.Output: refuses a Cmd whose Stdout is set, else captures
CmdOutput(cmd, exit) ==
    IF cmd.Stdout # Nil THEN NotStarted(ErrStdoutSet)
    ELSE [started |-> TRUE, exit |-> exit, err |-> ExitErr(exit),
          out |-> ChildStdout(cmd), stdoutTo |-> "capture"]

\* mutant of EnvRun: the error of cmd.Run is dropped
EnvRun_DropErr(e, script, args, order, exit) ==
    LET c == Command(e, script, args, order)
        r == IF c.err # Nil THEN NotStarted(c.err)
             ELSE [CmdRun(c.cmd, exit) EXCEPT !.err = Nil]
    IN  [e |-> Cleanup(c.e), cmd |-> c.cmd, res |-> r]

\* Environment.Run: command, then cmd.Run unless construction failed, then
\* the deferred cleanup
EnvRun(e, script, args, order, exit) ==
    LET c == Command(e, script, args, order)
        r == IF c.err # Nil THEN NotStarted(c.err) ELSE CmdRun(c.cmd, exit)
    IN  [e |-> Cleanup(c.e), cmd |-> c.cmd, res |-> r]

\* Environment.Output: the same around cmd.Output
EnvOutput(e, script, args, order, exit) ==
    LET c == Command(e, script, args, order)
        r == IF c.err # Nil THEN NotStarted(c.err) ELSE CmdOutput(c.cmd, exit)
    IN  [e |-> Cleanup(c.e), cmd |-> c.cmd, res |-> r]

(***************************************************************************)
(* Inputs                                                                  *)
(***************************************************************************)
KeyX == <<"X">>

KeyY == <<"Y">>

Scripts == {"echo $X", "pwd"}

\* the items of an argument list: a string, an integer and an Arg
Items == {MkStr(KeyX), MkInt(10), MkArg(KeyX, <<"w">>)}

ArgLists(n) == UNION {[1..k -> Items] : k \in 0..n}

\* the argument lists of the specifications that vary the Environment
ArgSamples ==
    {<<>>, <<MkStr(KeyX)>>, <<MkArg(KeyX, <<"w">>), MkStr(KeyY), MkInt(10)>>}

AllOptions ==
    <<WithStdout("buf1"), WithStderr("buf2"),
      WithEnv((KeyX :> <<"e">>) @@ (KeyY :> <<"f">>)), WithWorkingDir("/tmp")>>

\* the option lists: every selection of AllOptions
OptionLists ==
    {SelectSeq(AllOptions, LAMBDA o : o \in S) : S \in SUBSET {AllOptions[i] : i \in 1..Len(AllOptions)}}

\* the orders in which a map iteration can visit the keys of m
Orders(m) ==
    LET n == Cardinality(DOMAIN m)
    IN  {o \in [1..n -> DOMAIN m] : \A i, j \in 1..n : i # j => o[i] # o[j]}

(***************************************************************************)
(* State                                                                   *)
(***************************************************************************)
NoCall == [op |-> Nil]

Goroutines == {"g1", "g2"}

\* a goroutine outside Run and Output, and the calls it has made
NoGor == [pc |-> "idle", calls |-> 0]

\* var defaultEnvironment = NewEnvironment(&bash{})
Init ==
    /\ envs = [id \in EnvIds |-> IF id = "e0" THEN NewEnv(Bash, <<>>) ELSE NoEnv]
    /\ defaultEnvironment = "e0"
    /\ last = NoCall
    /\ installed = "e0"
    /\ gor = [g \in Goroutines |-> NoGor]
    /\ overlapped = {}

\* the record of a finished call on Environment id; prevFailed and prevOther
\* tell what the call before it on the same Environment was
CallRecord(id, op, via, script, args, order, exit, r) ==
    [op |-> op, via |-> via, env |-> id, script |-> script, args |-> args,
     order |-> order, exit |-> exit, cmd |-> r.cmd, res |-> r.res,
     prevFailed |-> last # NoCall /\ last.env = id /\ last.res.err # Nil,
     prevOther |-> /\ last # NoCall
                   /\ last.env = id
                   /\ last.script # script
                   /\ last.args # args
                   /\ last.args # <<>>]

\* a call of the method Run on Environment id
DoRun(id, via, script, args, exit) ==
    /\ envs[id] # NoEnv
    /\ \E order \in Orders(envs[id].env) :
           LET r == EnvRun(envs[id], script, args, order, exit)
           IN  /\ envs' = [envs EXCEPT ![id] = r.e]
               /\ last' = CallRecord(id, "Run", via, script, args, order, exit, r)
    /\ UNCHANGED <<defaultEnvironment, installed, gor, overlapped>>

\* a call of the method Output on Environment id
DoOutput(id, via, script, args, exit) ==
    /\ envs[id] # NoEnv
    /\ \E order \in Orders(envs[id].env) :
           LET r == EnvOutput(envs[id], script, args, order, exit)
           IN  /\ envs' = [envs EXCEPT ![id] = r.e]
               /\ last' = CallRecord(id, "Output", via, script, args, order, exit, r)
    /\ UNCHANGED <<defaultEnvironment, installed, gor, overlapped>>

\* NewEnvironment(shell, opts...) building the Environment id
DoNewEnvironment(id, shell, opts) ==
    /\ envs[id] = NoEnv
    /\ envs' = [envs EXCEPT ![id] = NewEnv(shell, opts)]
    /\ UNCHANGED <<defaultEnvironment, last, installed, gor, overlapped>>

\* mutant of Installed: the first default stays
Installed_Keep(cur, env) == cur

\* the value SetDefaultEnvironment(env) leaves in defaultEnvironment
Installed(cur, env) == env

\* SetDefaultEnvironment(env)
DoSetDefaultEnvironment(id) ==
    /\ envs[id] # NoEnv
    /\ defaultEnvironment' = Installed(defaultEnvironment, id)
    /\ installed' = id
    /\ UNCHANGED <<envs, last, gor, overlapped>>

(***************************************************************************)
(* Spec: one Environment built with any options, and its methods           *)
(***************************************************************************)
NewEnvironment ==
    \E shell \in Shells, opts \in OptionLists : DoNewEnvironment("e1", shell, opts)

MethodRun ==
    \E script \in Scripts, args \in ArgSamples, exit \in Exits :
        DoRun("e1", "method", script, args, exit)

MethodOutput ==
    \E script \in Scripts, args \in ArgSamples, exit \in Exits :
        DoOutput("e1", "method", script, args, exit)

Next == NewEnvironment \/ MethodRun \/ MethodOutput

Spec == Init /\ [][Next]_vars

(***************************************************************************)
(* SpecArgs: the free functions on the default Environment, over every     *)
(* argument list of at most MaxArgs items                                  *)
(***************************************************************************)
ExitsArgs == {"exit0", "exit1"}

\* the free function Run
Run ==
    \E args \in ArgLists(MaxArgs), exit \in ExitsArgs :
        DoRun(defaultEnvironment, "free", "echo $X", args, exit)

\* the free function Output
Output ==
    \E args \in ArgLists(MaxArgs), exit \in ExitsArgs :
        DoOutput(defaultEnvironment, "free", "echo $X", args, exit)

NextArgs == Run \/ Output

SpecArgs == Init /\ [][NextArgs]_vars

(***************************************************************************)
(* SpecDefault: Environments built beside the default one, installed as    *)
(* the default, and the free functions                                     *)
(***************************************************************************)
OptionListsDefault == {<<>>, <<WithWorkingDir("/tmp")>>}

NewEnvironmentDefault ==
    \E id \in {"e1", "e2"}, shell \in Shells, opts \in OptionListsDefault :
        DoNewEnvironment(id, shell, opts)

SetDefaultEnvironment == \E id \in EnvIds : DoSetDefaultEnvironment(id)

RunDefault ==
    \E script \in Scripts, exit \in ExitsArgs :
        DoRun(defaultEnvironment, "free", script, <<>>, exit)

OutputDefault ==
    \E script \in Scripts, exit \in ExitsArgs :
        DoOutput(defaultEnvironment, "free", script, <<>>, exit)

NextDefault == NewEnvironmentDefault \/ SetDefaultEnvironment \/ RunDefault \/ OutputDefault

SpecDefault == Init /\ [][NextDefault]_vars

(***************************************************************************)
(* SpecConc: two goroutines call Run and Output with no synchronization.   *)
(* A call is the sequence of its reads and writes of e.argBuffer: each     *)
(* append reads the slice and then stores the longer one, so that          *)
(* interleaved calls see and overwrite each other's stores.                *)
(***************************************************************************)
ScriptOf(g) == IF g = "g1" THEN "echo $X" ELSE "pwd"

\* g1 calls Run, g2 calls Output
OpOf(g) == IF g = "g1" THEN "Run" ELSE "Output"

ArgsConc == {<<>>, <<MkStr(KeyX)>>}

InitConc ==
    /\ envs = [id \in EnvIds |->
                  CASE id = "e0" -> NewEnv(Bash, <<>>)
                    [] id = "e1" -> NewEnv(CustomShell, <<>>)
                    [] OTHER -> NoEnv]
    /\ defaultEnvironment = "e0"
    /\ last = NoCall
    /\ installed = "e0"
    /\ gor = [g \in Goroutines |-> NoGor]
    /\ overlapped = {}

InFlight(g) == gor[g].pc # "idle"

\* goroutine g enters Run or Output on Environment id
Begin(g) ==
    /\ ~InFlight(g)
    /\ gor["g1"].calls + gor["g2"].calls < MaxCallsConc
    /\ \E id \in {"e0", "e1"} :
           /\ gor' = [gor EXCEPT ![g] =
                         [pc |-> "prefix", calls |-> gor[g].calls + 1, env |-> id,
                          op |-> OpOf(g), script |-> ScriptOf(g),
                          tmp |-> <<>>, cmd |-> NoCmd, err |-> Nil]]
           /\ overlapped' =
                  IF \E h \in Goroutines \ {g} : InFlight(h) /\ gor[h].env = id
                  THEN overlapped \cup {id} ELSE overlapped
    /\ UNCHANGED <<envs, defaultEnvironment, last, installed>>

\* the right-hand side of an append reads e.argBuffer
ReadBuffer(g, at, to) ==
    /\ gor[g].pc = at
    /\ gor' = [gor EXCEPT ![g].pc = to, ![g].tmp = envs[gor[g].env].argBuffer]
    /\ UNCHANGED <<envs, defaultEnvironment, last, installed, overlapped>>

\* the assignment of an append stores the longer slice
WriteBuffer(g, at, to, items) ==
    /\ gor[g].pc = at
    /\ envs' = [envs EXCEPT ![gor[g].env].argBuffer = AppendTo(gor[g].tmp, items)]
    /\ gor' = [gor EXCEPT ![g].pc = to, ![g].tmp = <<>>]
    /\ UNCHANGED <<defaultEnvironment, last, installed, overlapped>>

ReadForPrefix(g) == ReadBuffer(g, "prefix", "prefixW")

WritePrefix(g) ==
    WriteBuffer(g, "prefixW", "script", envs[gor[g].env].shell.Prefix)

ReadForScript(g) == ReadBuffer(g, "script", "scriptW")

WriteScript(g) == WriteBuffer(g, "scriptW", "suffix", <<gor[g].script>>)

\* if suf := e.shell.Suffix(); len(suf) > 0: the append's read, or past it
ReadForSuffix(g) ==
    /\ gor[g].pc = "suffix"
    /\ IF Len(envs[gor[g].env].shell.Suffix) > 0
       THEN gor' = [gor EXCEPT ![g].pc = "suffixW", ![g].tmp = envs[gor[g].env].argBuffer]
       ELSE gor' = [gor EXCEPT ![g].pc = "build"]
    /\ UNCHANGED <<envs, defaultEnvironment, last, installed, overlapped>>

WriteSuffix(g) ==
    WriteBuffer(g, "suffixW", "build", envs[gor[g].env].shell.Suffix)

\* exec.CommandContext copies e.argBuffer; the rest of command is local
\* (the call's args are first read here)
Build(g) ==
    /\ gor[g].pc = "build"
    /\ \E args \in ArgsConc :
           LET b == BuildCmd(envs[gor[g].env], args, <<>>)
           IN  gor' = [gor EXCEPT ![g].cmd = b.cmd, ![g].err = b.err,
                                  ![g].pc = IF b.err = Nil THEN "exec" ELSE "cleanup"]
    /\ UNCHANGED <<envs, defaultEnvironment, last, installed, overlapped>>

\* cmd.Run or cmd.Output
Exec(g) ==
    /\ gor[g].pc = "exec"
    /\ \E exit \in ExitsArgs :
           LET r == IF gor[g].op = "Run" THEN CmdRun(gor[g].cmd, exit)
                    ELSE CmdOutput(gor[g].cmd, exit)
           IN  gor' = [gor EXCEPT ![g].err = r.err, ![g].pc = "cleanup"]
    /\ UNCHANGED <<envs, defaultEnvironment, last, installed, overlapped>>

\* the deferred cleanup, and the return
Return(g) ==
    /\ gor[g].pc = "cleanup"
    /\ envs' = [envs EXCEPT ![gor[g].env] = Cleanup(envs[gor[g].env])]
    /\ gor' = [gor EXCEPT ![g] = [pc |-> "idle", calls |-> gor[g].calls]]
    /\ UNCHANGED <<defaultEnvironment, last, installed, overlapped>>

NextConc ==
    \E g \in Goroutines :
        \/ Begin(g)
        \/ ReadForPrefix(g)
        \/ WritePrefix(g)
        \/ ReadForScript(g)
        \/ WriteScript(g)
        \/ ReadForSuffix(g)
        \/ WriteSuffix(g)
        \/ Build(g)
        \/ Exec(g)
        \/ Return(g)

SpecConc == InitConc /\ [][NextConc]_vars

(***************************************************************************)
(* Properties                                                              *)
(***************************************************************************)
\* the last call built its exec.Cmd
Built == last # NoCall /\ last.cmd # NoCmd

\* the Environment the last call ran on
LastEnv == envs[last.env]

\* the entries of the last call's cmd.Env that follow the inherited
\* environment and the extra environment
ArgEntries ==
    SubSeq(last.cmd.Env, Len(OsEnviron) + Cardinality(DOMAIN LastEnv.env) + 1,
           Len(last.cmd.Env))

RECURSIVE TrailingPlain(_)
\* the length of the maximal run of plain items that ends the list
TrailingPlain(args) ==
    IF args = <<>> \/ IsArg(args[Len(args)]) THEN 0
    ELSE 1 + TrailingPlain(SubSeq(args, 1, Len(args) - 1))

AllPlain(args) == \A i \in 1..Len(args) : ~IsArg(args[i])

\* C1: construction fails, with "invalid number of arguments" and before any
\* process is started, exactly when the run of plain items that ends the
\* argument list has odd length; every other list builds its command
C1_InvalidIffOddTrailingRun ==
    last # NoCall =>
        IF TrailingPlain(last.args) % 2 = 1
        THEN last.cmd = NoCmd /\ last.res.err = ErrInvalidArgs /\ ~last.res.started
        ELSE last.cmd # NoCmd /\ last.res.err # ErrInvalidArgs

\* a list ending in an Arg after an unpaired plain item was built, and a list
\* with a plain item after it was refused
C1_Witness ==
    /\ last # NoCall
    /\ last.op = "Output"
    /\ Len(last.args) = 3
    /\ ~IsArg(last.args[1]) /\ IsArg(last.args[2]) /\ ~IsArg(last.args[3])
    /\ last.res.err = ErrInvalidArgs

RECURSIVE Independent(_)
\* the entries when every item is paired on its own: an Arg gives Key=Value,
\* two plain items in a row give key=value, a plain item with no plain
\* partner gives nothing
Independent(args) ==
    IF args = <<>> THEN <<>>
    ELSE IF IsArg(Head(args)) THEN <<ArgString(Head(args))>> \o Independent(Tail(args))
    ELSE IF Len(args) >= 2 /\ ~IsArg(args[2])
         THEN <<Sprintf(args[1]) \o <<"=">> \o Sprintf(args[2])>>
                  \o Independent(Tail(Tail(args)))
    ELSE Independent(Tail(args))

\* the plain items that directly precede position i
RECURSIVE PlainBefore(_, _)
PlainBefore(args, i) ==
    IF i = 1 \/ IsArg(args[i - 1]) THEN 0 ELSE 1 + PlainBefore(args, i - 1)

\* the list is a mix of Arg items and plain key/value pairs: every run of
\* plain items has even length
PairedPlain(args) ==
    /\ TrailingPlain(args) % 2 = 0
    /\ \A i \in 1..Len(args) : IsArg(args[i]) => PlainBefore(args, i) % 2 = 0

\* C3 as stated: whenever construction succeeds, every item is paired on
\* its own, and an Arg is never the value of the plain key before it
C3_Original == Built => ArgEntries = Independent(last.args)

\* C3 amended: when construction succeeds, the items are paired on their own
\* exactly for the lists that mix Arg items with plain key/value pairs; in
\* any other list that builds, an Arg is the value of the plain key before it
C3_PerItemPairing ==
    Built => (ArgEntries = Independent(last.args) <=> PairedPlain(last.args))

\* an Arg, then a plain pair, and both came out on their own
C3_Witness ==
    /\ Built
    /\ Len(last.args) = 3
    /\ IsArg(last.args[1]) /\ ~IsArg(last.args[2]) /\ ~IsArg(last.args[3])
    /\ Len(ArgEntries) = 2

\* C2 as stated: Output differs from Run only in where stdout goes: it
\* captures and returns the child's stdout, which does not reach the
\* configured sink, and it fails exactly when Run fails on the same call
C2_OutputAsRun ==
    (last # NoCall /\ last.op = "Output") =>
        LET run == EnvRun(LastEnv, last.script, last.args, last.order, last.exit)
        IN  /\ (last.res.err = Nil) <=> (run.res.err = Nil)
            /\ run.res.started =>
                   /\ last.res.started
                   /\ last.res.out = ChildStdout(last.cmd)
                   /\ last.res.stdoutTo = "capture"

\* Output on an Environment that has a stdout sink returned
C2_Witness ==
    /\ last # NoCall
    /\ last.op = "Output"
    /\ LastEnv.stdout # Nil
    /\ last.exit = "exit0"
    /\ last.args = <<>>

\* C5: between calls the scratch buffer of every Environment is empty, and
\* the arguments of every command built are the shell's prefix, the call's
\* script and the shell's suffix, whatever the calls before it did
C5_BufferResetAndArgv ==
    /\ \A id \in EnvIds : envs[id] # NoEnv => envs[id].argBuffer = <<>>
    /\ Built =>
           last.cmd.Args = LastEnv.shell.Prefix \o <<last.script>> \o LastEnv.shell.Suffix

\* a command was built, for a shell with a suffix, right after a call on the
\* same Environment with another script had failed
C5_Witness ==
    /\ Built
    /\ last.res.started
    /\ last.prevFailed
    /\ last.prevOther
    /\ LastEnv.shell = CustomShell
    /\ last.cmd.Args = <<"-N", "-c", last.script, ";">>

\* C6: a call whose construction fails returns that error, and no bytes,
\* without the child being started; otherwise Run starts it and returns what
\* the collaborator reports: nil exactly for exit status zero
C6_RunErrors ==
    last # NoCall =>
        IF TrailingPlain(last.args) % 2 = 1
        THEN /\ ~last.res.started
             /\ last.res.err = ErrInvalidArgs
             /\ last.res.out = NilBytes
        ELSE last.op = "Run" =>
                 /\ last.res.started
                 /\ last.res.exit = last.exit
                 /\ (last.res.err = Nil) <=> (last.exit = "exit0")
                 /\ last.res.err = ExitErr(last.exit)

\* Run returned the error of a child killed by a signal
C6_Witness ==
    /\ last # NoCall
    /\ last.op = "Run"
    /\ last.res.started
    /\ last.exit = "signal"
    /\ last.res.err # Nil

RECURSIVE EntryKey(_)
\* the key of an environment entry: what precedes its first "="
EntryKey(entry) ==
    IF entry = <<>> \/ Head(entry) = "=" THEN <<>>
    ELSE <<Head(entry)>> \o EntryKey(Tail(entry))

\* the entry that decides key k in an environment vector: the last one
Getenv(ev, k) ==
    LET idx == {i \in 1..Len(ev) : EntryKey(ev[i]) = k}
    IN  IF idx = {} THEN Nil ELSE ev[CHOOSE i \in idx : \A j \in idx : j <= i]

RECURSIVE Normalized(_)
\* the pairing rule on its own: an Arg is an entry, any other item is a key
\* whose value is the item after it
Normalized(args) ==
    IF args = <<>> THEN <<>>
    ELSE IF IsArg(Head(args)) THEN <<ArgString(Head(args))>> \o Normalized(Tail(args))
    ELSE <<Sprintf(args[1]) \o <<"=">> \o Sprintf(args[2])>> \o Normalized(Tail(Tail(args)))

\* C7: the environment of a command built is the inherited environment, then
\* one entry for each entry of the extra environment, then the entries of
\* this call's args in their order, and nothing else; so an entry from the
\* args decides its key
C7_EnvVector ==
    Built =>
        LET ev == last.cmd.Env
            n0 == Len(OsEnviron)
            m == LastEnv.env
            k == Cardinality(DOMAIN m)
            mine == Normalized(last.args)
        IN  /\ Len(ev) = n0 + k + Len(mine)
            /\ SubSeq(ev, 1, n0) = OsEnviron
            /\ {ev[i] : i \in (n0 + 1)..(n0 + k)} = {key \o <<"=">> \o m[key] : key \in DOMAIN m}
            /\ ArgEntries = mine
            /\ \A i \in 1..Len(mine) :
                   Getenv(ev, EntryKey(mine[i])) = Getenv(mine, EntryKey(mine[i]))

\* a call without args, on an Environment with an extra environment, right
\* after a call that had added entries of its own: none of them is left
C7_Witness ==
    /\ Built
    /\ last.args = <<>>
    /\ last.prevOther
    /\ ~last.prevFailed
    /\ Cardinality(DOMAIN LastEnv.env) = 2
    /\ Len(last.cmd.Env) = Len(OsEnviron) + 2
    /\ Getenv(last.cmd.Env, KeyX) = <<"X", "=", "e">>

\* C9: the command carries a working directory exactly when the
\* Environment's workingDir is not empty, and then it is that directory
C9_WorkingDir ==
    Built =>
        /\ (last.cmd.Dir # "") <=> (LastEnv.workingDir # "")
        /\ last.cmd.Dir # "" => last.cmd.Dir = LastEnv.workingDir

\* Output built a command in /tmp
C9_Witness ==
    /\ Built
    /\ last.op = "Output"
    /\ LastEnv.workingDir = "/tmp"
    /\ last.cmd.Dir = "/tmp"

\* C8: the default Environment is bash's at first; a free function runs on
\* the Environment installed last, with that Environment's shell and
\* configuration; installing a default changes no Environment
C8_DefaultEnvironment ==
    /\ envs[defaultEnvironment].shell = Bash
    /\ [][/\ (last' # last /\ last'.via = "free") =>
                 /\ last'.env = installed
                 /\ last'.cmd.Path = envs[installed].shell.Name
                 /\ last'.cmd.Dir = envs[installed].workingDir
                 /\ last'.cmd.Stdout = envs[installed].stdout
          /\ (installed' # installed \/ defaultEnvironment' # defaultEnvironment) =>
                 envs' = envs]_vars

\* a free function ran sh after an Environment for sh replaced an installed
\* Environment with a working directory, beside a third Environment
C8_Witness ==
    /\ last # NoCall
    /\ last.via = "free"
    /\ last.env = "e1"
    /\ last.cmd.Path = "sh"
    /\ last.cmd.Dir = ""
    /\ envs["e2"] # NoEnv
    /\ envs["e2"].workingDir = "/tmp"
    /\ envs["e2"].shell = CustomShell
    /\ defaultEnvironment = "e1"

\* the arguments a call of goroutine g is to hand over
ExpectedArgs(g) ==
    envs[gor[g].env].shell.Prefix \o <<gor[g].script>> \o envs[gor[g].env].shell.Suffix

\* goroutine g has built the command of its call
HasCmd(g) == gor[g].pc \in {"exec", "cleanup"} /\ gor[g].cmd # NoCmd

\* C10: a command whose arguments are not the prefix, the call's script and
\* the suffix is built only on an Environment that two calls have shared;
\* with one caller at a time every command has exactly these arguments
C10_SingleCallerOnly ==
    \A g \in Goroutines :
        (HasCmd(g) /\ gor[g].cmd.Args # ExpectedArgs(g)) => gor[g].env \in overlapped

\* interleaved calls: the command of g1 carries the script of g2
C10_Witness ==
    /\ HasCmd("g1")
    /\ gor["g1"].cmd.Args # ExpectedArgs("g1")
    /\ \E i \in 1..Len(gor["g1"].cmd.Args) : gor["g1"].cmd.Args[i] = ScriptOf("g2")
    /\ gor["g1"].env \in overlapped

====
